---------------------------- MODULE Spec2Model ----------------------------
(***************************************************************************)
(* A model of the Wikipedia football-stadium pipeline:                     *)
(*   src/pipelines/wikipedia_pipeline.py  (the three stages, clean_text)   *)
(*   src/dags/wikipedia_flow.py           (the DAG that orders the stages) *)
(*                                                                         *)
(* Text is a sequence of characters, each character a one-element string   *)
(* token.  Two specifications are given:                                   *)
(*   SpecText  applies clean_text and the capacity parsing to texts drawn  *)
(*             from a bounded set;                                         *)
(*   Spec      runs one DAG run: extract, transform, write.                *)
(***************************************************************************)
EXTENDS Integers, Sequences, FiniteSets, TLC

VARIABLES
    cin,      \* SpecText: the raw cell text under test
    cpc,      \* SpecText: how far the text has been processed
    cout1,    \* SpecText: clean_text(cin)
    cout2,    \* SpecText: clean_text(clean_text(cin))
    capStr,   \* SpecText: the "capacity" field extract builds from cin
    capInt,   \* SpecText: the outcome of astype(int) on capStr
    tstate,   \* Spec: the state of each task of the DAG run
    xcom,     \* Spec: the XCom store, by producing task id (key 'rows')
    ret,      \* Spec: what each python_callable returned
    raised,   \* Spec: the exception that left each callable, or "none"
    logged,   \* Spec: the logging.error lines written so far
    page,     \* Spec: what the web gave the extract stage
    geo1,     \* Spec: the primary geocoder calls, in order
    geo2,     \* Spec: the duplicate-pass geocoder calls, in order
    pandasOK, \* Spec: whether this build accepts an empty duplicate frame
    pulled,   \* Spec: what each stage got from xcom_pull
    written   \* Spec: the CSV the write stage stored, or NoFile

textVars == <<cin, cpc, cout1, cout2, capStr, capInt>>
pipeVars ==
    <<tstate, xcom, ret, raised, logged, page, geo1, geo2, pandasOK, pulled, written>>
vars == <<cin, cpc, cout1, cout2, capStr, capInt,
          tstate, xcom, ret, raised, logged, page, geo1, geo2, pandasOK, pulled,
          written>>

---------------------------------------------------------------------------
(* Characters and the marker strings of clean_text.                        *)

NL == "\n"
Diamond == "DIAMOND"
Whitespace == {" ", NL}
Digits == {"0", "1", "2", "3", "4", "5", "6", "7", "8", "9"}

NBSP == <<"&", "n", "b", "s", "p">>
DiamondMark == <<" ", Diamond>>
BracketMark == <<"[">>
FormerlyMark == <<" ", "(", "f", "o", "r", "m", "e", "r", "l", "y", ")">>

---------------------------------------------------------------------------
(* Python's str operations, on character sequences.                        *)

Min(S) == CHOOSE m \in S : \A n \in S : m <= n
Max(S) == CHOOSE m \in S : \A n \in S : m >= n

\* pat occurs in t at (1-based) position i
OccursAt(t, pat, i) ==
    /\ i >= 1
    /\ i + Len(pat) - 1 <= Len(t)
    /\ \A j \in 1..Len(pat) : t[i + j - 1] = pat[j]

\* str.find: the lowest 0-based index of pat in t, or -1
find(t, pat) ==
    LET hits == {i \in 1..Len(t) : OccursAt(t, pat, i)}
    IN  IF hits = {} THEN -1 ELSE Min(hits) - 1

\* str.replace(old, new): every non-overlapping occurrence, left to right
RECURSIVE replace(_, _, _)
replace(t, old, new) ==
    LET i == find(t, old)
    IN  IF i = -1 THEN t
        ELSE SubSeq(t, 1, i) \o new
             \o replace(SubSeq(t, i + Len(old) + 1, Len(t)), old, new)

\* str.split(sep)[0]: the text before the first sep, or all of it
split_first(t, sep) ==
    LET i == find(t, sep)
    IN  IF i = -1 THEN t ELSE SubSeq(t, 1, i)

\* str.lstrip() without str.rstrip(): a strip that forgets the right end
lstrip_only(t) ==
    LET keep == {i \in 1..Len(t) : t[i] \notin Whitespace}
    IN  IF keep = {} THEN <<>> ELSE SubSeq(t, Min(keep), Len(t))

\* str.strip(): leading and trailing whitespace removed
strip(t) ==
    LET keep == {i \in 1..Len(t) : t[i] \notin Whitespace}
    IN  IF keep = {} THEN <<>> ELSE SubSeq(t, Min(keep), Max(keep))

\* Python truthiness of an int: `if text.find(...):` is taken unless it is 0
Truthy(n) == n # 0

\* clean_text, lines 76-85, statement by statement
clean_text(text) ==
    LET t1 == strip(text)
        t2 == replace(t1, NBSP, <<>>)
        t3 == IF Truthy(find(t2, DiamondMark))
              THEN split_first(t2, DiamondMark) ELSE t2
        t4 == IF find(t3, BracketMark) # -1
              THEN split_first(t3, BracketMark) ELSE t3
        t5 == IF find(t4, FormerlyMark) # -1
              THEN split_first(t4, FormerlyMark) ELSE t4
    IN  replace(t5, <<NL>>, <<>>)

---------------------------------------------------------------------------
(* The capacity field: built as a string by extract, coerced by transform. *)

\* a capacity field that keeps the periods
capacity_field_keep_period(cell) == replace(clean_text(cell), <<",">>, <<>>)

\* line 117: clean_text(tds[1].text).replace(',', '').replace('.', '')
capacity_field(cell) ==
    replace(replace(clean_text(cell), <<",">>, <<>>), <<".">>, <<>>)

DigitValue(c) ==
    CASE c = "0" -> 0 [] c = "1" -> 1 [] c = "2" -> 2 [] c = "3" -> 3
      [] c = "4" -> 4 [] c = "5" -> 5 [] c = "6" -> 6 [] c = "7" -> 7
      [] c = "8" -> 8 [] c = "9" -> 9

RECURSIVE DecValue(_)
DecValue(ds) ==
    IF ds = <<>> THEN 0
    ELSE 10 * DecValue(SubSeq(ds, 1, Len(ds) - 1)) + DigitValue(ds[Len(ds)])

\* int(str), which astype(int) applies to each string of the column at line
\* 179: surrounding whitespace is ignored, one sign is allowed, and at least
\* one digit must follow; anything else is a ValueError.
astype_int(s) ==
    LET t == strip(s)
        signed == t # <<>> /\ t[1] \in {"-", "+"}
        body == IF signed THEN Tail(t) ELSE t
        ok == body # <<>> /\ \A i \in 1..Len(body) : body[i] \in Digits
    IN  IF ~ok THEN [ok |-> FALSE, val |-> 0]
        ELSE [ok |-> TRUE,
              val |-> IF signed /\ t[1] = "-" THEN 0 - DecValue(body)
                      ELSE DecValue(body)]

---------------------------------------------------------------------------
(* SpecText: clean_text and the capacity parsing on bounded texts.         *)

MaxPieces == 3

Pieces ==
    { <<" ">>, <<NL>>, <<"a">>, <<"[">>, <<Diamond>>, NBSP,
      <<"(", "f", "o", "r", "m", "e", "r", "l", "y", ")">>,
      <<"9">>, <<"0">>, <<",">>, <<".">>, <<"-">> }

RECURSIVE Texts(_)
Texts(n) ==
    IF n = 0 THEN {<<>>}
    ELSE LET shorter == Texts(n - 1)
         IN  shorter \cup {t \o p : t \in shorter, p \in Pieces}

StadiumExample ==
    <<"S", "t", "a", "d", "i", "u", "m", " ", Diamond, "[", "3", "]">>
    \o FormerlyMark
Cap90000 == <<"9", "0", ",", "0", "0", "0">>
Cap1234 == <<"1", ".", "2", "3", "4">>

Inputs == Texts(MaxPieces) \cup {StadiumExample, Cap90000, Cap1234}

NoInt == [ok |-> FALSE, val |-> 0]

PipeIdle ==
    /\ tstate = <<>> /\ xcom = <<>> /\ ret = <<>> /\ raised = <<>>
    /\ logged = {} /\ page = <<>> /\ geo1 = <<>> /\ geo2 = <<>>
    /\ pandasOK = TRUE /\ pulled = <<>> /\ written = <<>>

InitText ==
    /\ cin \in Inputs
    /\ cpc = "start"
    /\ cout1 = <<>> /\ cout2 = <<>> /\ capStr = <<>> /\ capInt = NoInt
    /\ PipeIdle

CleanOnce ==
    /\ cpc = "start"
    /\ cout1' = clean_text(cin)
    /\ cpc' = "cleaned"
    /\ UNCHANGED <<cin, cout2, capStr, capInt>>
    /\ UNCHANGED pipeVars

CleanTwice ==
    /\ cpc = "cleaned"
    /\ cout2' = clean_text(cout1)
    /\ cpc' = "recleaned"
    /\ UNCHANGED <<cin, cout1, capStr, capInt>>
    /\ UNCHANGED pipeVars

MapCapacity ==
    /\ cpc = "recleaned"
    /\ capStr' = capacity_field(cin)
    /\ cpc' = "mapped"
    /\ UNCHANGED <<cin, cout1, cout2, capInt>>
    /\ UNCHANGED pipeVars

CoerceCapacity ==
    /\ cpc = "mapped"
    /\ capInt' = astype_int(capStr)
    /\ cpc' = "coerced"
    /\ UNCHANGED <<cin, cout1, cout2, capStr>>
    /\ UNCHANGED pipeVars

NextText == CleanOnce \/ CleanTwice \/ MapCapacity \/ CoerceCapacity

SpecText == InitText /\ [][NextText]_vars

---------------------------------------------------------------------------
(* The DAG of src/dags/wikipedia_flow.py.                                  *)

ExtractTask == "extract_data_from_wikipedia"
TransformTask == "transform_wikipedia_data"
WriteTask == "write_wikipedia_data"
TaskIds == {ExtractTask, TransformTask, WriteTask}

\* a DAG in which the write task hangs off the extract task
UpstreamFanOut(t) ==
    IF t = ExtractTask THEN {} ELSE {ExtractTask}

\* line 42: extract_data_from_wikipedia >> transform_wikipedia_data
\*          >> write_wikipedia_data
Upstream(t) ==
    CASE t = ExtractTask -> {}
      [] t = TransformTask -> {ExtractTask}
      [] t = WriteTask -> {TransformTask}

\* Python's None, as an XCom value, a return value and a pulled value
None == [kind |-> "None"]
OK == [kind |-> "str", value |-> "OK"]

\* ti.xcom_pull(key='rows', task_ids=task): None when nothing was pushed
xcom_pull(task) == IF task \in DOMAIN xcom THEN xcom[task] ELSE None

---------------------------------------------------------------------------
(* The web page and the extract stage.                                     *)

MaxRows == 3

Txt(s) == [text |-> s, img |-> None]
\* an image cell: its <img> element, if any, with its src attribute, if any
ImgCell(src) == [text |-> <<>>, img |-> [kind |-> "img", src |-> src]]
NoSrc == [kind |-> "None"]
Src(s) == [kind |-> "str", value |-> s]

\* the data rows a page may hold: the <td> cells of one <tr>
RowA ==
    << Txt(<<"A", " ", Diamond>>), Txt(<<"9", ",", "0">>), Txt(<<"E">>),
       Txt(<<"K">>), Txt(<<"X">>), ImgCell(Src(<<"/", "/", "u">>)),
       Txt(<<"T">>) >>
RowB ==
    << Txt(<<"B", "[", "1", "]">>), Txt(<<"1", ".", "2">>), Txt(<<"E">>),
       Txt(<<"K">>), Txt(<<"Y">>), Txt(<<>>), Txt(<<"T">>), Txt(<<"n">>) >>
RowShort ==
    << Txt(<<"C">>), Txt(<<"7">>), Txt(<<"E">>), Txt(<<"K">>), Txt(<<"X">>),
       Txt(<<>>) >>
RowBadCapacity ==
    << Txt(<<"D">>), Txt(<<"a">>), Txt(<<"E">>), Txt(<<"K">>), Txt(<<"X">>),
       Txt(<<>>), Txt(<<"T">>) >>
RowNoSrc ==
    << Txt(<<"F">>), Txt(<<"8">>), Txt(<<"E">>), Txt(<<"K">>), Txt(<<"Y">>),
       ImgCell(NoSrc), Txt(<<"T">>) >>
DataRows == {RowA, RowB, RowShort, RowBadCapacity, RowNoSrc}

HeaderRow == <<>>   \* the header <tr> holds <th> cells, no <td>

RECURSIVE RowSeqs(_)
RowSeqs(n) ==
    IF n = 0 THEN {<<>>}
    ELSE LET shorter == RowSeqs(n - 1)
         IN  shorter \cup {rs \o <<r>> : rs \in shorter, r \in DataRows}

\* what the fetch and the parse can meet
Pages ==
    {[kind |-> "fetch_failed"], [kind |-> "no_table"]}
    \cup {[kind |-> "table", rows |-> <<HeaderRow>> \o rs] : rs \in RowSeqs(MaxRows)}

\* get_wikipedia_page, lines 26-33: the text, or None after a caught
\* RequestException
get_wikipedia_page(p) == IF p.kind = "fetch_failed" THEN None ELSE p

\* get_wikipedia_data, lines 48-56: the <tr> elements of the first
\* table.wikitable.sortable, or None (error logged) when anything raises
get_wikipedia_data(html) ==
    IF html = None \/ html.kind = "no_table"
    THEN [rows |-> None, log |-> {"could not get data"}]
    ELSE [rows |-> [kind |-> "rows", trs |-> html.rows], log |-> {}]

\* ranks counted from 0
rank_from_zero(i) == i - 1

\* line 115: "rank": i
rank_of(i) == i

\* line 121: does building the images value raise?  tds[5].find("img") is
\* None (no image), or a tag whose src is None (AttributeError) or holds no
\* "//" (IndexError)
image_raises(cell) ==
    /\ cell.img # None
    /\ \/ cell.img.src = NoSrc
       \/ find(cell.img.src.value, <<"/", "/">>) = -1

\* line 121: 'https://' + src.split("//")[1], or "NO_IMAGE"
image_of(cell) ==
    IF cell.img = None THEN <<"NO_IMAGE">>
    ELSE LET src == cell.img.src.value
             rest == SubSeq(src, find(src, <<"/", "/">>) + 3, Len(src))
         IN  <<"https://">> \o split_first(rest, <<"/", "/">>)

\* lines 113-123: does mapping the i-th <tr> raise?
row_raises(tds) == Len(tds) < 7 \/ image_raises(tds[6])

\* lines 113-123: the dict built from the i-th <tr>
map_row(i, tds) ==
    [rank |-> rank_of(i),
     stadium |-> clean_text(tds[1].text),
     capacity |-> capacity_field(tds[2].text),
     region |-> clean_text(tds[3].text),
     country |-> clean_text(tds[4].text),
     city |-> clean_text(tds[5].text),
     images |-> image_of(tds[6]),
     home_team |-> clean_text(tds[7].text)]

\* a loop that drops the rows it cannot map and keeps the rest
map_rows_skipping(trs) ==
    LET good == SelectSeq(trs, LAMBDA tds : tds # HeaderRow /\ ~row_raises(tds))
    IN  [raises |-> FALSE,
         data |-> [k \in 1..Len(good) |-> map_row(k, good[k])]]

\* lines 110-124: data = [] and the loop over range(1, len(rows)); the loop
\* raises at the first row it cannot map
map_rows(trs) ==
    IF \E i \in 2..Len(trs) : row_raises(trs[i])
    THEN [raises |-> TRUE, data |-> <<>>]
    ELSE [raises |-> FALSE,
          data |-> [k \in 1..(Len(trs) - 1) |-> map_row(k, trs[k + 1])]]

\* json.dumps(data): a JSON array of objects
json_dumps(data) == [kind |-> "json_records", data |-> data]

\* an except clause that logs and raises again
except_reraise(msg) == [raised |-> "Exception", log |-> {msg}]

\* lines 129-130: except Exception as e: logging.error(...); falls off the
\* end of the function, which returns None
except_log(msg) == [raised |-> "none", log |-> {msg}]

\* extract_wikipedia_data, lines 104-130
extract_wikipedia_data(p) ==
    LET html == get_wikipedia_page(p)
        got == get_wikipedia_data(html)
        mapped == IF got.rows = None
                  THEN [raises |-> TRUE, data |-> <<>>]   \* len(None)
                  ELSE map_rows(got.rows.trs)
        caught == except_log("could not get rows")
    IN  IF mapped.raises
        THEN [push |-> None, ret |-> None, raised |-> caught.raised,
              log |-> got.log \cup caught.log]
        ELSE [push |-> json_dumps(mapped.data), ret |-> OK, raised |-> "none",
              log |-> got.log]

---------------------------------------------------------------------------
(* The geocoder and the transform stage.                                   *)

\* what geolocator.geocode can do: find a place, find nothing (None), or
\* raise (a timeout, the service unavailable)
Found(a, b) == [kind |-> "found", latitude |-> a, longitude |-> b]
Nothing == [kind |-> "nothing"]
GeoRaises == [kind |-> "raises"]
GeoAnswers == {Found(1, 1), Found(2, 2), Nothing, GeoRaises}

Point(a, b) == [kind |-> "tuple", lat |-> a, lon |-> b]

\* line 149: f'{city}, {country}'
geocode_query(country, city) == city \o <<",", " ">> \o country

\* a get_lat_long that reads location.latitude without testing location
get_lat_long_unchecked(answer) ==
    IF answer.kind = "found"
    THEN [raises |-> FALSE, value |-> Point(answer.latitude, answer.longitude)]
    ELSE [raises |-> TRUE, value |-> None]

\* get_lat_long, lines 148-154, on the geocoder's answer
get_lat_long(answer) ==
    CASE answer.kind = "raises" -> [raises |-> TRUE, value |-> None]
      [] answer.kind = "found" ->
            [raises |-> FALSE,
             value |-> Point(answer.latitude, answer.longitude)]
      [] OTHER -> [raises |-> FALSE, value |-> None]

\* json.loads of an XCom value: the list of row objects extract dumped, or
\* the column-oriented object DataFrame.to_json() wrote
json_loads(v) ==
    IF v.kind = "json_records" THEN [kind |-> "list", items |-> v.data]
    ELSE [kind |-> "dict", n |-> v.n, cols |-> v.cols]

\* pd.DataFrame(obj), lines 176 and 205: rows from a list of row objects, or
\* from a column -> index -> value object
DataFrame(obj) ==
    IF obj.kind = "list" THEN obj.items
    ELSE [k \in 1..obj.n |-> [c \in DOMAIN obj.cols |-> obj.cols[c][k]]]

\* line 177: x['country'], x['stadium']
primary_query(rec) == geocode_query(rec.country, rec.stadium)

\* line 182: x['country'], x['city']
duplicate_query(rec) == geocode_query(rec.country, rec.city)

\* the placeholder picture, line 10
NO_IMAGE == <<"https://", "N", "o", "-", "i", "m", "a", "g", "e">>

\* line 178: x if x not in ['NO_IMAGE', '', None] else NO_IMAGE
fix_image(x) == IF x \in {<<"NO_IMAGE">>, <<>>} THEN NO_IMAGE ELSE x

\* DataFrame.duplicated(keep=False): every row of a repeated value
duplicated_keep_none(locs) ==
    {k \in 1..Len(locs) : \E j \in 1..Len(locs) : j # k /\ locs[j] = locs[k]}

\* line 181: stadiums_df.duplicated(['location']), keep='first': the rows
\* whose location equals that of an earlier row (None equals None)
duplicated(locs) ==
    {k \in 1..Len(locs) : \E j \in 1..(k - 1) : locs[j] = locs[k]}

\* an update that overwrites with whatever the other frame holds
update_overwrite(this, that) == that

\* line 183: DataFrame.update takes only the non-NA values of the other
\* frame; where the other frame holds None the old value stays
update(this, that) == IF that = None THEN this ELSE that

\* the calls a pass makes, in row order, given the geocoder's answers: the
\* pass stops at the first call that raises
GeoLog(rowsAsked, queries, answers) ==
    [n \in 1..Len(rowsAsked) |->
        [idx |-> rowsAsked[n],
         query |-> queries[rowsAsked[n]],
         answer |-> answers[n],
         result |-> get_lat_long(answers[n])]]

LogRaises(log) == \E n \in 1..Len(log) : log[n].result.raises

\* answers for a pass over m rows: one per call made, none after a raise
RECURSIVE AnswerRuns(_)
AnswerRuns(m) ==
    IF m = 0 THEN {<<>>}
    ELSE {<<GeoRaises>>}
         \cup {<<a>> \o rest : a \in GeoAnswers \ {GeoRaises},
                               rest \in AnswerRuns(m - 1)}

\* a pass whose answers raise in get_lat_long stops there too
CallsMade(answers) ==
    LET bad == {n \in 1..Len(answers) : get_lat_long(answers[n]).raises}
    IN  IF bad = {} THEN answers ELSE SubSeq(answers, 1, Min(bad))

\* the rows of a set, in index order
RECURSIVE InOrder(_)
InOrder(S) ==
    IF S = {} THEN <<>> ELSE <<Min(S)>> \o InOrder(S \ {Min(S)})

Columns ==
    <<"rank", "stadium", "capacity", "region", "country", "city", "images",
      "home_team", "location">>

\* a value as JSON writes it: a tuple becomes an array
json_value(c, x) ==
    IF c = "location" /\ x # None
    THEN [kind |-> "list", lat |-> x.lat, lon |-> x.lon]
    ELSE x

\* DataFrame.to_json(): column -> index -> value
to_json(frame) ==
    [kind |-> "json_columns",
     n |-> Len(frame),
     cols |-> [c \in {Columns[i] : i \in 1..Len(Columns)} |->
                 [k \in 1..Len(frame) |-> json_value(c, frame[k][c])]]]

\* the frame after lines 176-183: the location each row ends with
transformed(data, log1, dups, log2) ==
    [k \in 1..Len(data) |->
        LET first == log1[k].result.value
            again == {n \in 1..Len(log2) : log2[n].idx = k}
            second == IF again = {} THEN None
                      ELSE log2[CHOOSE n \in again : TRUE].result.value
        IN  [rank |-> data[k].rank,
             stadium |-> data[k].stadium,
             capacity |-> astype_int(data[k].capacity).val,
             region |-> data[k].region,
             country |-> data[k].country,
             city |-> data[k].city,
             images |-> fix_image(data[k].images),
             home_team |-> data[k].home_team,
             location |-> IF k \in dups THEN update(first, second) ELSE first]]

---------------------------------------------------------------------------
(* One DAG run.                                                            *)

NotPulled == [kind |-> "not_pulled"]
NoFile == [kind |-> "no_file"]
Unfetched == [kind |-> "unfetched"]

\* line 172: task_ids='extract_data_from_wikipedia'
TransformPullsFrom == "extract_data_from_wikipedia"

\* line 202: task_ids='transform_wikipedia_data'
WritePullsFrom == "transform_wikipedia_data"

TextIdle ==
    /\ cin = <<>> /\ cpc = "idle"
    /\ cout1 = <<>> /\ cout2 = <<>> /\ capStr = <<>> /\ capInt = NoInt

Init ==
    /\ TextIdle
    /\ tstate = [t \in TaskIds |-> "none"]
    /\ xcom = [t \in TaskIds |-> None]
    /\ ret = [t \in TaskIds |-> None]
    /\ raised = [t \in TaskIds |-> "none"]
    /\ pulled = [t \in TaskIds |-> NotPulled]
    /\ logged = {}
    /\ page = Unfetched
    /\ geo1 = <<>> /\ geo2 = <<>>
    /\ pandasOK = TRUE
    /\ written = NoFile

\* the scheduler starts a task once every upstream task has succeeded
StartTask(t) ==
    /\ tstate[t] = "none"
    /\ \A u \in Upstream(t) : tstate[u] = "success"
    /\ tstate' = [tstate EXCEPT ![t] = "running"]
    /\ UNCHANGED <<xcom, ret, raised, logged, page, geo1, geo2, pandasOK,
                   pulled, written>>
    /\ UNCHANGED textVars

\* the scheduler gives up a task whose upstream task did not succeed
SkipTask(t) ==
    /\ tstate[t] = "none"
    /\ \E u \in Upstream(t) : tstate[u] \in {"failed", "upstream_failed"}
    /\ tstate' = [tstate EXCEPT ![t] = "upstream_failed"]
    /\ UNCHANGED <<xcom, ret, raised, logged, page, geo1, geo2, pandasOK,
                   pulled, written>>
    /\ UNCHANGED textVars

\* the callable of task t ends: r is what it pushed, returned, raised, logged
Finish(t, r) ==
    /\ tstate' = [tstate EXCEPT
                    ![t] = IF r.raised = "none" THEN "success" ELSE "failed"]
    /\ raised' = [raised EXCEPT ![t] = r.raised]
    /\ ret' = [ret EXCEPT ![t] = r.ret]
    /\ xcom' = IF r.push = None THEN xcom ELSE [xcom EXCEPT ![t] = r.push]
    /\ logged' = logged \cup r.log

Raise(e) == [push |-> None, ret |-> None, raised |-> e, log |-> {}]
Return(value, push) ==
    [push |-> push, ret |-> value, raised |-> "none", log |-> {}]

\* the extract task runs its callable on whatever the web returns
RunExtract ==
    /\ tstate[ExtractTask] = "running"
    /\ \E p \in Pages :
          /\ page' = p
          /\ Finish(ExtractTask, extract_wikipedia_data(p))
    /\ UNCHANGED <<geo1, geo2, pandasOK, pulled, written>>
    /\ UNCHANGED textVars

\* transform_wikipedia_data, lines 172-186.  Nothing in it catches:
\*   json.loads(None) raises TypeError when extract pushed nothing;
\*   a frame built from an empty list has no columns, so lines 177-178 raise;
\*   a geocoder exception leaves DataFrame.apply at the row that met it;
\*   astype(int) raises ValueError on a capacity that is no integer;
\*   with no duplicate row, duplicates.apply(..., axis=1) runs on an empty
\*   frame, and whether line 182 then assigns an empty column or raises
\*   depends on the pandas build (pandasOK).
RunTransform ==
    /\ tstate[TransformTask] = "running"
    /\ UNCHANGED <<page, written>>
    /\ UNCHANGED textVars
    /\ LET v == xcom_pull(TransformPullsFrom) IN
       /\ pulled' = [pulled EXCEPT ![TransformTask] = v]
       /\ IF v = None
          THEN /\ Finish(TransformTask, Raise("TypeError"))   \* json.loads(None)
               /\ UNCHANGED <<geo1, geo2, pandasOK>>
          ELSE
          LET data == DataFrame(json_loads(v)) IN
          IF Len(data) = 0
          THEN /\ Finish(TransformTask, Raise("EmptyFrameError"))
               /\ UNCHANGED <<geo1, geo2, pandasOK>>
          ELSE
          \E a1 \in AnswerRuns(Len(data)) :
             LET made1 == CallsMade(a1)
                 log1 == GeoLog([n \in 1..Len(made1) |-> n],
                                [k \in 1..Len(data) |-> primary_query(data[k])],
                                made1)
             IN
             /\ geo1' = log1
             /\ IF LogRaises(log1)
                THEN /\ Finish(TransformTask, Raise("GeocoderError"))
                     /\ UNCHANGED <<geo2, pandasOK>>
                ELSE IF \E k \in 1..Len(data) : ~astype_int(data[k].capacity).ok
                THEN /\ Finish(TransformTask, Raise("ValueError"))
                     /\ UNCHANGED <<geo2, pandasOK>>
                ELSE
                LET locs == [k \in 1..Len(data) |-> log1[k].result.value]
                    dups == duplicated(locs)
                    asked == InOrder(dups)
                IN
                IF dups = {}
                THEN \E accepts \in BOOLEAN :
                        /\ pandasOK' = accepts
                        /\ geo2' = <<>>
                        /\ Finish(TransformTask,
                              IF accepts
                              THEN Return(OK,
                                     to_json(transformed(data, log1, dups, <<>>)))
                              ELSE Raise("SetItemError"))
                ELSE
                \E a2 \in AnswerRuns(Len(asked)) :
                   LET made2 == CallsMade(a2)
                       log2 == GeoLog(SubSeq(asked, 1, Len(made2)),
                                      [k \in 1..Len(data) |->
                                          duplicate_query(data[k])],
                                      made2)
                   IN
                   /\ geo2' = log2
                   /\ UNCHANGED pandasOK
                   /\ Finish(TransformTask,
                         IF LogRaises(log2) THEN Raise("GeocoderError")
                         ELSE Return(OK,
                                to_json(transformed(data, log1, dups, log2))))

\* DataFrame.to_csv(..., index=False): a header line and one line per row
to_csv(frame) == [header |-> Columns, lines |-> frame]

\* write_wikipedia_data, lines 202-214: to_csv either stores the file or
\* raises (authentication, network, quota); nothing catches it
RunWrite ==
    /\ tstate[WriteTask] = "running"
    /\ UNCHANGED <<page, geo1, geo2, pandasOK>>
    /\ UNCHANGED textVars
    /\ LET v == xcom_pull(WritePullsFrom) IN
       /\ pulled' = [pulled EXCEPT ![WriteTask] = v]
       /\ IF v = None
          THEN /\ Finish(WriteTask, Raise("TypeError"))   \* json.loads(None)
               /\ UNCHANGED written
          ELSE \E stored \in BOOLEAN :
                  IF stored
                  THEN /\ written' = to_csv(DataFrame(json_loads(v)))
                       /\ Finish(WriteTask, Return(None, None))
                  ELSE /\ UNCHANGED written
                       /\ Finish(WriteTask, Raise("StorageError"))

Schedule == \E t \in TaskIds : StartTask(t)
GiveUp == \E t \in TaskIds : SkipTask(t)

Next == Schedule \/ GiveUp \/ RunExtract \/ RunTransform \/ RunWrite

Spec == Init /\ [][Next]_vars

---------------------------------------------------------------------------
(* Properties of clean_text and of the capacity parsing (SpecText).        *)

Contains(t, pat) == \E i \in 1..Len(t) : OccursAt(t, pat, i)

Cleaned == cpc # "start"
Recleaned == cpc \notin {"start", "cleaned"}

\* a text a second clean_text has nothing to do on: no whitespace at either
\* end and none of the markers '&nbsp', ' <diamond>', ' (formerly)'
Settled(y) ==
    /\ y # <<>> => (y[1] \notin Whitespace /\ y[Len(y)] \notin Whitespace)
    /\ ~Contains(y, NBSP)
    /\ ~Contains(y, DiamondMark)
    /\ ~Contains(y, FormerlyMark)

\* an input with no newline, no '&nbsp', and no whitespace directly before a
\* ' <diamond>', '[' or ' (formerly)' marker
PlainInput(x) ==
    /\ ~Contains(x, <<NL>>)
    /\ ~Contains(x, NBSP)
    /\ \A i \in 2..Len(x) :
          (\/ OccursAt(x, DiamondMark, i)
           \/ OccursAt(x, BracketMark, i)
           \/ OccursAt(x, FormerlyMark, i)) => x[i - 1] \notin Whitespace

\* C3 as stated: clean_text is idempotent, clean_text(clean_text(x)) equals
\* clean_text(x) for every input x.
C3_Idempotent == Recleaned => cout2 = cout1

\* C3 amended: a second clean_text leaves clean_text(x) unchanged exactly
\* when clean_text(x) has no whitespace at either end and contains none of
\* '&nbsp', ' <diamond>', ' (formerly)'; that is so for every x with no
\* newline, no '&nbsp' and no whitespace directly before a marker.
C3_IdempotentWhenSettled ==
    Recleaned =>
        /\ (cout2 = cout1) <=> Settled(cout1)
        /\ PlainInput(cin) => cout2 = cout1

\* C3 witness: a text that cleaning changed and that a second cleaning kept.
C3_Witness ==
    /\ Recleaned
    /\ cout1 # cin /\ cout1 # <<>>
    /\ Contains(cin, BracketMark)
    /\ cout2 = cout1

\* the six rules of the Field Cleaner, each on the output of the one before,
\* every truncation applied whenever its marker is present
SixRules(x) ==
    LET r1 == strip(x)
        r2 == replace(r1, NBSP, <<>>)
        r3 == IF Contains(r2, DiamondMark)
              THEN SubSeq(r2, 1, find(r2, DiamondMark)) ELSE r2
        r4 == IF Contains(r3, BracketMark)
              THEN SubSeq(r3, 1, find(r3, BracketMark)) ELSE r3
        r5 == IF Contains(r4, FormerlyMark)
              THEN SubSeq(r4, 1, find(r4, FormerlyMark)) ELSE r4
    IN  SelectSeq(r5, LAMBDA c : c # NL)

\* C4 as stated: clean_text returns what the six rules give in order, the
\* ' <diamond>' truncation applied wherever the marker stands, position 0
\* included, and clean_text('Stadium <diamond>[3] (formerly)') is 'Stadium'.
C4_SixRulesInOrder ==
    Cleaned =>
        /\ cout1 = SixRules(cin)
        /\ cin = StadiumExample => cout1 = <<"S", "t", "a", "d", "i", "u", "m">>

IsNumberText(y) ==
    /\ \A i \in 1..Len(y) : y[i] \in Digits \cup {",", "."}
    /\ \E i \in 1..Len(y) : y[i] \in Digits

DigitsOf(y) == SelectSeq(y, LAMBDA c : c \in Digits)

RECURSIVE Pow10(_)
Pow10(n) == IF n = 0 THEN 1 ELSE 10 * Pow10(n - 1)

RECURSIVE NumberWritten(_)
NumberWritten(ds) ==
    IF ds = <<>> THEN 0
    ELSE DigitValue(Head(ds)) * Pow10(Len(ds) - 1) + NumberWritten(Tail(ds))

\* C10 as stated: for every capacity cell text the capacity field is the
\* cleaned text without commas and periods, it is always coercible to an
\* integer, and the integer is never negative.
C10_AlwaysNonNegativeInt ==
    cpc = "coerced" =>
        /\ capStr = SelectSeq(cout1, LAMBDA c : c \notin {",", "."})
        /\ capInt.ok
        /\ capInt.val >= 0

\* C10 amended: for every capacity cell text whose cleaned text is made of
\* digits, commas and periods only, with at least one digit, the capacity
\* field is its digits in order, the field is coercible, and the capacity is
\* the non-negative integer the digits write ('90,000' gives 90000, '1.234'
\* gives 1234).
C10_NumberTextsParse ==
    cpc = "coerced" =>
        /\ capStr = SelectSeq(cout1, LAMBDA c : c \notin {",", "."})
        /\ IsNumberText(cout1) =>
              /\ capStr = DigitsOf(cout1)
              /\ capInt.ok
              /\ capInt.val = NumberWritten(DigitsOf(cout1))
              /\ capInt.val >= 0
        /\ cin = Cap90000 => capInt = [ok |-> TRUE, val |-> 90000]
        /\ cin = Cap1234 => capInt = [ok |-> TRUE, val |-> 1234]

\* C10 witness: a cell with a separator between its digits that was parsed.
C10_Witness ==
    /\ cpc = "coerced"
    /\ Contains(cout1, <<".">>)
    /\ IsNumberText(cout1)
    /\ capInt.ok /\ capInt.val = 90

---------------------------------------------------------------------------
(* Properties of one DAG run (Spec).                                       *)

Started(t) == tstate[t] \in {"running", "success", "failed"}
ExtractDone == tstate[ExtractTask] \in {"success", "failed"}
TransformDone == tstate[TransformTask] = "success"

\* the record set extract pushed, and the one transform pushed
Extracted == xcom[ExtractTask].data
Emitted == xcom[TransformTask]
EmittedLocation(k) == Emitted.cols["location"][k]
AsEmitted(loc) ==
    IF loc = None THEN None
    ELSE [kind |-> "list", lat |-> loc.lat, lon |-> loc.lon]

\* the records whose primary location equals that of an earlier record
Duplicates ==
    {k \in 1..Len(geo1) :
        \E j \in 1..(k - 1) : geo1[j].result.value = geo1[k].result.value}

SecondResult(k) ==
    geo2[CHOOSE n \in 1..Len(geo2) : geo2[n].idx = k].result.value

\* C1 as stated: every record whose primary location equals that of an
\* earlier record is emitted with exactly the result of its second,
\* (country, city) query, a 'not found' (null) result included.
C1_DuplicateTakesSecondResult ==
    TransformDone =>
        \A k \in Duplicates :
            /\ \E n \in 1..Len(geo2) : geo2[n].idx = k
            /\ EmittedLocation(k) = AsEmitted(SecondResult(k))

\* C1 amended: every record whose primary location equals that of an
\* earlier record is queried again with (country, city); it is emitted with
\* the result of that second query when the query finds coordinates, and
\* keeps its primary location when the second query finds nothing
\* (DataFrame.update skips a null).
C1_DuplicateTakesFoundSecondResult ==
    TransformDone =>
        \A k \in Duplicates :
            /\ \E n \in 1..Len(geo2) : geo2[n].idx = k
            /\ SecondResult(k) # None =>
                  EmittedLocation(k) = AsEmitted(SecondResult(k))
            /\ SecondResult(k) = None =>
                  EmittedLocation(k) = AsEmitted(geo1[k].result.value)

\* C1 witness: a duplicate whose second query found other coordinates, and
\* which was emitted with them.
C1_Witness ==
    /\ TransformDone
    /\ \E k \in Duplicates :
          /\ geo1[k].result.value # None
          /\ SecondResult(k) # None
          /\ SecondResult(k) # geo1[k].result.value
          /\ EmittedLocation(k) = AsEmitted(SecondResult(k))

\* C2: every record is first geocoded with (country, stadium name); the
\* (country, city) query is issued only for records whose location equals
\* that of an earlier record, and every first-seen record is emitted with
\* its primary result.
C2_OriginalsUntouched ==
    /\ \A n \in 1..Len(geo1) :
          /\ geo1[n].idx = n
          /\ geo1[n].query =
                Extracted[n].stadium \o <<",", " ">> \o Extracted[n].country
    /\ \A n \in 1..Len(geo2) :
          /\ geo2[n].idx \in Duplicates
          /\ geo2[n].query =
                Extracted[geo2[n].idx].city \o <<",", " ">>
                \o Extracted[geo2[n].idx].country
    /\ geo2 # <<>> => Len(geo1) = Len(Extracted)
    /\ TransformDone =>
          /\ Len(geo1) = Len(Extracted)
          /\ \A k \in 1..Len(geo1) :
                k \notin Duplicates =>
                    EmittedLocation(k) = AsEmitted(geo1[k].result.value)

\* C2 witness: a duplicate was moved by its second query while the record
\* it duplicated kept the shared primary location.
C2_Witness ==
    /\ TransformDone
    /\ \E k \in Duplicates : \E j \in 1..(k - 1) :
          /\ j \notin Duplicates
          /\ geo1[j].result.value = geo1[k].result.value
          /\ geo1[j].result.value # None
          /\ EmittedLocation(j) = AsEmitted(geo1[j].result.value)
          /\ EmittedLocation(k) # EmittedLocation(j)

\* C5 as stated: in each of the three stages every error is caught and
\* logged by the stage, which returns to the orchestrator without raising.
C5_AllErrorsCaught == \A t \in TaskIds : raised[t] = "none"

\* C5 amended: only extract catches its errors (it logs 'could not get
\* rows', returns None and pushes nothing).  transform and write have no
\* handler: a missing input, a geocoder exception, a non-integer capacity or
\* a storage failure leaves the stage as an exception, the task fails,
\* the stage logs nothing, and nothing is pushed or written.
C5_OnlyExtractCatches ==
    /\ raised[ExtractTask] = "none"
    /\ (ExtractDone /\ xcom[ExtractTask] = None) =>
          /\ "could not get rows" \in logged
          /\ ret[ExtractTask] = None
          /\ tstate[ExtractTask] = "success"
    /\ logged \subseteq {"could not get data", "could not get rows"}
    /\ \A t \in {TransformTask, WriteTask} :
          /\ (tstate[t] = "failed") <=> (raised[t] # "none")
          /\ raised[t] # "none" => (xcom[t] = None /\ ret[t] = None)
    /\ raised[WriteTask] # "none" => written = NoFile
    /\ TransformDone =>
          /\ xcom[ExtractTask] # None
          /\ \A n \in 1..Len(geo1) : geo1[n].answer # GeoRaises
          /\ \A n \in 1..Len(geo2) : geo2[n].answer # GeoRaises
          /\ \A k \in 1..Len(Extracted) : astype_int(Extracted[k].capacity).ok
    /\ tstate[WriteTask] = "success" => written # NoFile

\* C5 witness: extract swallowed its error, transform raised on the missing
\* input and the write task was never run.
C5_Witness ==
    /\ tstate[ExtractTask] = "success" /\ xcom[ExtractTask] = None
    /\ raised[TransformTask] = "TypeError"
    /\ tstate[WriteTask] = "upstream_failed"

BadPage ==
    \/ page.kind # "table"
    \/ \E i \in 2..Len(page.rows) : Len(page.rows[i]) < 7

\* C6: extract either pushes one record per non-header row and returns
\* "OK", or pushes nothing and does not return "OK"; it pushes nothing
\* whenever the fetch fails, no table matches or some data row has fewer
\* than 7 cells, whatever rows came before.
C6_AllOrNothing ==
    /\ ~ExtractDone => xcom[ExtractTask] = None
    /\ ExtractDone =>
          /\ (xcom[ExtractTask] # None) <=> (ret[ExtractTask] = OK)
          /\ xcom[ExtractTask] # None =>
                /\ page.kind = "table"
                /\ Len(Extracted) = Len(page.rows) - 1
          /\ BadPage => (xcom[ExtractTask] = None /\ ret[ExtractTask] # OK)

\* C6 witness: a short row after two well-formed rows, and nothing pushed.
C6_Witness ==
    /\ ExtractDone
    /\ page.kind = "table" /\ Len(page.rows) = 4
    /\ Len(page.rows[2]) >= 7 /\ Len(page.rows[3]) >= 7 /\ Len(page.rows[4]) < 7
    /\ xcom[ExtractTask] = None

\* C7: transform starts only after extract has completed and write only
\* after transform has completed; transform reads the rows extract pushed,
\* write reads the rows transform pushed, and what write stores is the
\* record set transform produced.
C7_StagesInSequence ==
    /\ Started(TransformTask) => tstate[ExtractTask] = "success"
    /\ Started(WriteTask) => tstate[TransformTask] = "success"
    /\ pulled[TransformTask] # NotPulled =>
          pulled[TransformTask] = xcom[ExtractTask]
    /\ pulled[WriteTask] # NotPulled =>
          /\ pulled[WriteTask] = xcom[TransformTask]
          /\ pulled[WriteTask] # xcom[ExtractTask]
          /\ pulled[WriteTask] # None
    /\ written # NoFile =>
          /\ Len(written.lines) = Emitted.n
          /\ \A k \in 1..Len(written.lines) :
                \A c \in DOMAIN Emitted.cols :
                    written.lines[k][c] = Emitted.cols[c][k]

\* C7 witness: a file was stored from a transformed set of two records.
C7_Witness ==
    /\ written # NoFile
    /\ Len(written.lines) = 2
    /\ tstate[WriteTask] = "success"

\* C8: when extract pushes a record set for a table with N data rows, the
\* set has N records in table order and the k-th has rank k.
C8_RanksOneToN ==
    xcom[ExtractTask] # None =>
        /\ Len(Extracted) = Len(page.rows) - 1
        /\ \A k \in 1..Len(Extracted) :
              /\ Extracted[k].rank = k
              /\ Extracted[k].stadium = clean_text(page.rows[k + 1][1].text)
        /\ \A j, k \in 1..Len(Extracted) :
              j < k => Extracted[j].rank < Extracted[k].rank

\* C8 witness: three data rows mapped, the last with rank 3.
C8_Witness ==
    /\ xcom[ExtractTask] # None
    /\ Len(Extracted) = 3
    /\ Extracted[3].rank = 3
    /\ Extracted[1].stadium # Extracted[3].stadium

SameRecordsInOrder ==
    /\ Emitted.n = Len(Extracted)
    /\ \A k \in 1..Len(Extracted) :
          /\ Emitted.cols["rank"][k] = Extracted[k].rank
          /\ Emitted.cols["stadium"][k] = Extracted[k].stadium

\* C9 as stated: when the primary query of a record finds nothing,
\* transform still completes, emits as many records in the same order, and
\* that record carries a null location.
C9_MissStaysNull ==
    TransformDone =>
        /\ SameRecordsInOrder
        /\ \A k \in 1..Len(geo1) :
              geo1[k].answer = Nothing => EmittedLocation(k) = None

\* C9 amended: a 'not found' answer raises nothing: when transform fails the
\* cause is a missing input, an empty record set, a geocoder exception, a
\* non-integer capacity or pandas refusing the empty duplicate frame.  When it
\* completes it emits as many records in the same order, and a record whose
\* primary query found nothing carries a null location unless it is
\* re-geocoded in the duplicate pass (an earlier record also has a null
\* location) and the (country, city) query finds coordinates.
C9_MissDoesNotFail ==
    /\ tstate[TransformTask] = "failed" =>
          \/ pulled[TransformTask] = None
          \/ Len(Extracted) = 0
          \/ \E n \in 1..Len(geo1) : geo1[n].answer = GeoRaises
          \/ \E n \in 1..Len(geo2) : geo2[n].answer = GeoRaises
          \/ \E k \in 1..Len(Extracted) : ~astype_int(Extracted[k].capacity).ok
          \/ (Duplicates = {} /\ ~pandasOK)
    /\ TransformDone =>
          /\ SameRecordsInOrder
          /\ \A k \in 1..Len(geo1) :
                geo1[k].answer = Nothing =>
                    \/ EmittedLocation(k) = None
                    \/ /\ k \in Duplicates
                       /\ SecondResult(k) # None
                       /\ EmittedLocation(k) = AsEmitted(SecondResult(k))

\* C9 witness: one record's primary query found nothing, another's found a
\* place, and the set was emitted with the null in place.
C9_Witness ==
    /\ TransformDone
    /\ \E j, k \in 1..Len(geo1) :
          /\ geo1[j].answer = Nothing
          /\ EmittedLocation(j) = None
          /\ geo1[k].answer # Nothing
          /\ EmittedLocation(k) # None

=============================================================================
